---------------------------- MODULE Spec2Model ----------------------------
(***************************************************************************)
(* A model of the Agentic-MIS business-intelligence demo:                  *)
(*   - bi_agent/tools.py       the query tool and the schema tool          *)
(*   - bi_agent/bi_service.py  BIService (connect / execute_sql / close)   *)
(*   - bi_agent/agent.py       the stage lists of the sequential agents    *)
(*   - app.py                  run_bi_pipeline_async, process_request_async*)
(*   - evaluate_sql.py         evaluate() and its retry loop               *)
(*                                                                         *)
(* Texts are sequences of tokens.  Python values and JSON texts are kept   *)
(* apart: json.dumps maps the first to the second and json.loads back.     *)
(* bi_agent/sql_executor.py (execute_query, validate_sql) is not among the *)
(* sources; it is modelled from the specification's section 4.3.           *)
(***************************************************************************)
EXTENDS Integers, Sequences, FiniteSets, TLC

(***************************************************************************)
(* Bounds of the model.                                                    *)
(***************************************************************************)
MaxToolCalls == 2
MaxCases == 2
MaxEvents == 2
MaxMaxTables == 3

(***************************************************************************)
(* Constants of evaluate(): the attempts allowed per case and the seconds  *)
(* of wait added per retry.                                                *)
(***************************************************************************)
max_retries == 3
WaitStep == 20

(***************************************************************************)
(* Python's None, and the text of an exception raised by a library.        *)
(***************************************************************************)
PyNone == "<None>"
ExcText == "boom"
RateLimitText == "429 RESOURCE_EXHAUSTED"

(***************************************************************************)
(* The environment: which of the four credentials os.getenv finds.         *)
(***************************************************************************)
CredNames == {"MSSQL_SERVER", "MSSQL_DATABASE", "MSSQL_USERNAME", "MSSQL_PASSWORD"}

Envs == [CredNames -> BOOLEAN]

AllCreds(e) == \A c \in CredNames : e[c]

(***************************************************************************)
(* SQL texts.  A statement is a sequence of tokens: optional leading       *)
(* comments or blanks, a keyword in some letter case, the rest.            *)
(***************************************************************************)
Upper(tok) ==
    CASE tok \in {"select", "Select", "SELECT"} -> "SELECT"
      [] tok \in {"insert", "Insert", "INSERT"} -> "INSERT"
      [] tok \in {"update", "Update", "UPDATE"} -> "UPDATE"
      [] tok \in {"delete", "Delete", "DELETE"} -> "DELETE"
      [] tok \in {"drop", "Drop", "DROP"} -> "DROP"
      [] tok \in {"alter", "Alter", "ALTER"} -> "ALTER"
      [] tok \in {"truncate", "Truncate", "TRUNCATE"} -> "TRUNCATE"
      [] OTHER -> tok

WriteKeywords == {"INSERT", "UPDATE", "DELETE", "DROP", "ALTER", "TRUNCATE"}

CommentToks == {"--c", "/*c*/"}
BlankToks == {" "}

KeywordForms ==
    {"select", "Select", "SELECT", "insert", "INSERT", "update", "UPDATE",
     "delete", "Delete", "DELETE", "drop", "DROP", "alter", "ALTER",
     "truncate", "TRUNCATE"}

Leads == {<<>>, <<"--c">>, <<"/*c*/">>, <<" ", "--c">>}

Statements ==
    {lead \o <<kw, "x">> : lead \in Leads, kw \in KeywordForms}
    \cup {<<"SELECT", "x", ";", "DROP", "x">>, <<"select", "x", ";">>, <<>>}

RECURSIVE SkipLead(_)
SkipLead(s) ==
    IF s # <<>> /\ Head(s) \in CommentToks \cup BlankToks
    THEN SkipLead(Tail(s))
    ELSE s

FirstKeyword(s) == IF SkipLead(s) = <<>> THEN "" ELSE Upper(Head(SkipLead(s)))

IsNonSelect(s) == FirstKeyword(s) \in WriteKeywords

RECURSIVE DropTrailing(_, _)
DropTrailing(s, toks) ==
    IF s # <<>> /\ s[Len(s)] \in toks
    THEN DropTrailing(SubSeq(s, 1, Len(s) - 1), toks)
    ELSE s

(***************************************************************************)
(* validate_sql of bi_agent/sql_executor.py, from the specification: a     *)
(* single read-only selection statement, whatever the letter case, the     *)
(* leading comments or a trailing semicolon; anything else is rejected.    *)
(***************************************************************************)
ValidateSql(s) ==
    LET body == DropTrailing(SkipLead(s), {";"} \cup BlankToks)
    IN  /\ body # <<>>
        /\ Upper(Head(body)) = "SELECT"
        /\ \A i \in 1..Len(body) :
              body[i] # ";" /\ Upper(body[i]) \notin WriteKeywords

(***************************************************************************)
(* Data frames: the column names and the rows, each row a function from    *)
(* the column names to a Python cell value.                                *)
(***************************************************************************)
PyCells == {"1", "a", PyNone, "nan", "Timestamp"}

Columns1 == <<"Category">>

Row(v) == [c \in {"Category"} |-> v]

Frame(rows) == [columns |-> Columns1, rows |-> rows]

EmptyFrame == Frame(<<>>)

Frames ==
    {EmptyFrame, Frame(<<Row("a")>>), Frame(<<Row("a"), Row("1")>>),
     Frame(<<Row("nan")>>), Frame(<<Row("Timestamp")>>)}

\* Option values: None is <<>>, a present value x is <<x>>.
None == <<>>
Some(x) == <<x>>

(***************************************************************************)
(* What the database and its driver do during one call: whether            *)
(* create_engine raises, and how the execution of an accepted statement    *)
(* ends.                                                                   *)
(***************************************************************************)
DbOutcomes ==
    [engine : {"ok", "raise"}, exec : {"rows", "dberror", "raise"}, df : Frames]

DbOutcomesSmall ==
    {o \in DbOutcomes :
        /\ (o.engine = "raise" \/ o.exec # "rows") => o.df = EmptyFrame
        /\ o.engine = "raise" => o.exec = "rows"}

(***************************************************************************)
(* execute_query of bi_agent/sql_executor.py, from the specification       *)
(* (section 4.3) and from what its callers read of its result: a rejected  *)
(* statement is not executed and yields a failure; an accepted one is      *)
(* executed and yields the frame, a failure, or an exception.              *)
(***************************************************************************)
ExecuteQuery(sql, o) ==
    IF ~ValidateSql(sql)
    THEN [raised |-> FALSE, executed |-> FALSE,
          result |-> [success |-> FALSE, data |-> None, columns |-> <<>>,
                      row_count |-> 0, error |-> "Only SELECT queries are allowed"]]
    ELSE CASE o.exec = "raise" ->
                [raised |-> TRUE, executed |-> TRUE,
                 result |-> [success |-> FALSE, data |-> None, columns |-> <<>>,
                             row_count |-> 0, error |-> ExcText]]
           [] o.exec = "dberror" ->
                [raised |-> FALSE, executed |-> TRUE,
                 result |-> [success |-> FALSE, data |-> None, columns |-> <<>>,
                             row_count |-> 0, error |-> "Query execution error: " \o ExcText]]
           [] OTHER ->
                [raised |-> FALSE, executed |-> TRUE,
                 result |-> [success |-> TRUE, data |-> Some(o.df),
                             columns |-> o.df.columns,
                             row_count |-> Len(o.df.rows), error |-> PyNone]]

(***************************************************************************)
(* Result envelopes.  The tools build a Python dict whose data is a list   *)
(* of row dicts; execute_query and BIService carry a frame (or None).      *)
(***************************************************************************)
\* A failure envelope that forgets its error message.
FailureDictNoError(msg) ==
    [success |-> FALSE, data |-> <<>>, columns |-> <<>>, row_count |-> 0, error |-> PyNone]

FailureDict(msg) ==
    [success |-> FALSE, data |-> <<>>, columns |-> <<>>, row_count |-> 0, error |-> msg]

\* DataFrame.to_dict(orient='records'): one dict per row, in row order.
ToDictRecords(df) == [i \in 1..Len(df.rows) |-> df.rows[i]]

DfEmpty(df) == Len(df.rows) = 0

(***************************************************************************)
(* JSON.  A JSON scalar is [t, v]; a JSON text has a form ("object",       *)
(* "array", "null", "garbage"), a fence (Markdown wrapper, "" for none),   *)
(* an indentation and, for an object, its members.                         *)
(***************************************************************************)
DigitStr(n) ==
    CASE n = 0 -> "0" [] n = 1 -> "1" [] n = 2 -> "2" [] n = 3 -> "3" [] OTHER -> "many"

StrDigit(s) ==
    CASE s = "0" -> 0 [] s = "1" -> 1 [] s = "2" -> 2 [] s = "3" -> 3 [] OTHER -> 4

JStr(s) == [t |-> "string", v |-> s]
JNull == [t |-> "null", v |-> ""]
JBool(b) == [t |-> IF b THEN "true" ELSE "false", v |-> ""]
JNum(s) == [t |-> "number", v |-> s]
JNaN == [t |-> "NaN", v |-> ""]

\* json.dumps of one cell value; a Timestamp is not serializable.
Serializable(v) == v # "Timestamp"

JCell(v) ==
    CASE v = PyNone -> JNull
      [] v = "nan" -> JNaN
      [] v = "1" -> JNum("1")
      [] OTHER -> JStr(v)

\* json.loads of one scalar.
PyCell(j) ==
    CASE j.t = "null" -> PyNone
      [] j.t = "NaN" -> "nan"
      [] j.t = "number" -> j.v
      [] OTHER -> j.v

JRow(r) == [c \in DOMAIN r |-> JCell(r[c])]
PyRow(r) == [c \in DOMAIN r |-> PyCell(r[c])]

DictSerializable(d) ==
    \A i \in 1..Len(d.data) : \A c \in DOMAIN d.data[i] : Serializable(d.data[i][c])

JMembers(d) ==
    [success |-> JBool(d.success),
     data |-> [i \in 1..Len(d.data) |-> JRow(d.data[i])],
     columns |-> [i \in 1..Len(d.columns) |-> JStr(d.columns[i])],
     row_count |-> JNum(DigitStr(d.row_count)),
     error |-> IF d.error = PyNone THEN JNull ELSE JStr(d.error)]

NoMembers == [x \in {} |-> JNull]

JsonText(form, fence, indent, members) ==
    [form |-> form, fence |-> fence, indent |-> indent, members |-> members]

\* json.dumps(d, indent=n); raises TypeError on a value it cannot serialize.
JsonDumps(d, indent) ==
    IF DictSerializable(d)
    THEN [raised |-> FALSE, text |-> JsonText("object", "", indent, JMembers(d))]
    ELSE [raised |-> TRUE, text |-> JsonText("garbage", "", 0, NoMembers)]

(***************************************************************************)
(* execute_sql_and_format(sql_query) in environment e when the database    *)
(* behaves as o.  The result names the text returned, whether the          *)
(* statement reached the database, and the engine created and disposed.    *)
(***************************************************************************)
ToolError(msg) == JsonDumps(FailureDict("Tool error: " \o msg), 0).text

ToolReturn(out, executed, created, disposed) ==
    [out |-> out, executed |-> executed, created |-> created, disposed |-> disposed]

\* A response that does not look at the success flag of execute_query.
ToolResponseIgnoresFailure(result) ==
    [success |-> TRUE, data |-> <<>>, columns |-> result.columns,
     row_count |-> result.row_count, error |-> PyNone]

ToolResponse(result) ==
    IF result.success
    THEN LET df == result.data
             data_list == IF df # None /\ ~DfEmpty(df[1])
                          THEN ToDictRecords(df[1]) ELSE <<>>
         IN  [success |-> TRUE, data |-> data_list, columns |-> result.columns,
              row_count |-> result.row_count, error |-> PyNone]
    ELSE FailureDict(result.error)

ExecuteSqlAndFormat(sql, e, o) ==
    IF ~AllCreds(e)
    THEN ToolReturn(
            JsonDumps(FailureDict(
                "Database credentials not configured in environment variables"), 0).text,
            FALSE, FALSE, FALSE)
    ELSE IF o.engine = "raise"
    THEN ToolReturn(ToolError(ExcText), FALSE, FALSE, FALSE)
    ELSE LET q == ExecuteQuery(sql, o)
         IN  IF q.raised
             THEN ToolReturn(ToolError(q.result.error), q.executed, TRUE, FALSE)
             ELSE LET dumped == JsonDumps(ToolResponse(q.result), 2)
                  IN  IF dumped.raised
                      THEN ToolReturn(
                              ToolError("Object of type Timestamp is not JSON serializable"),
                              q.executed, TRUE, TRUE)
                      ELSE ToolReturn(dumped.text, q.executed, TRUE, TRUE)

(***************************************************************************)
(* DatabaseTools.execute_sql_query(sql_query): the engine was created by   *)
(* the constructor; an exception of execute_query is not caught.           *)
(***************************************************************************)
\* A response that reports an empty result set as a failure.
DatabaseToolsResponseEmptyFails(result) ==
    IF result.success /\ result.data # None /\ ~DfEmpty(result.data[1])
    THEN [success |-> TRUE, data |-> ToDictRecords(result.data[1]),
          columns |-> result.columns, row_count |-> result.row_count, error |-> PyNone]
    ELSE FailureDict("no data")

DatabaseToolsResponse(result) ==
    IF result.success
    THEN LET df == result.data
             data_list == IF df # None THEN ToDictRecords(df[1]) ELSE <<>>
         IN  [success |-> TRUE, data |-> data_list, columns |-> result.columns,
              row_count |-> result.row_count, error |-> PyNone]
    ELSE FailureDict(result.error)

ExecuteSqlQuery(sql, o) ==
    LET q == ExecuteQuery(sql, o)
    IN  [raised |-> q.raised, executed |-> q.executed,
         dict |-> DatabaseToolsResponse(q.result)]

(***************************************************************************)
(* BIService.execute_sql(sql_query) with self.engine = engine ("none" or   *)
(* "live"): the result of execute_query, or the not-connected failure.     *)
(***************************************************************************)
NotConnected ==
    [success |-> FALSE, data |-> None, error |-> "Not connected to database",
     row_count |-> 0, columns |-> <<>>]

ServiceExecuteSql(engine, sql, o) ==
    IF engine = "none"
    THEN [raised |-> FALSE, executed |-> FALSE, result |-> NotConnected]
    ELSE ExecuteQuery(sql, o)

(***************************************************************************)
(* json.loads: a fenced or garbled text raises; an object gives a dict, an *)
(* array a list, null gives None.                                          *)
(***************************************************************************)
PyMember(k, j) ==
    CASE k = "success" -> (j.t = "true")
      [] k = "data" -> [i \in 1..Len(j) |-> PyRow(j[i])]
      [] k = "columns" -> [i \in 1..Len(j) |-> j[i].v]
      [] k = "row_count" -> StrDigit(j.v)
      [] OTHER -> IF j.t = "null" THEN PyNone ELSE j.v

PyMembers(m) == [k \in DOMAIN m |-> PyMember(k, m[k])]

JsonLoads(text) ==
    IF text.fence # "" \/ text.form = "garbage"
    THEN [raised |-> TRUE, type |-> "", dict |-> PyMembers(NoMembers)]
    ELSE [raised |-> FALSE,
          type |-> CASE text.form = "object" -> "dict"
                     [] text.form = "array" -> "list"
                     [] OTHER -> "NoneType",
          dict |-> PyMembers(text.members)]

\* dict.get(key, default)
DictGet(d, k, default) == IF k \in DOMAIN d THEN d[k] ELSE default

(***************************************************************************)
(* BIService.  self.engine is "none" or "live"; lastConnect is what the    *)
(* most recent connect() returned ("never" before the first), closedSince  *)
(* whether close() ran after it, orphaned whether connect() replaced a     *)
(* live engine that nobody disposed.                                       *)
(***************************************************************************)
NewService ==
    [engine |-> "none", lastConnect |-> "never", closedSince |-> FALSE,
     orphaned |-> FALSE]

\* validate_connection(engine): SELECT @@VERSION succeeds or raises inside.
ValidateConnection(o) == o.exec = "rows"

ServiceConnect(s, o) ==
    IF o.engine = "raise"
    THEN [svc |-> [s EXCEPT !.lastConnect = "failed", !.closedSince = FALSE],
          ok |-> FALSE]
    ELSE [svc |-> [s EXCEPT !.engine = "live",
                            !.orphaned = s.orphaned \/ s.engine = "live",
                            !.lastConnect = IF ValidateConnection(o) THEN "ok" ELSE "failed",
                            !.closedSince = FALSE],
          ok |-> ValidateConnection(o)]

ServiceClose(s) ==
    IF s.engine = "live"
    THEN [s EXCEPT !.engine = "none", !.closedSince = TRUE]
    ELSE [s EXCEPT !.closedSince = TRUE]

(***************************************************************************)
(* get_database_schema() of tools.py: the schema text, or an error text;   *)
(* get_schema_info catches its own exceptions, so the engine the function  *)
(* creates is always disposed.                                             *)
(***************************************************************************)
GetDatabaseSchema(e, o) ==
    IF ~AllCreds(e)
    THEN [text |-> <<"Error: Database credentials not configured in environment variables">>,
          created |-> FALSE, disposed |-> FALSE]
    ELSE IF o.engine = "raise"
    THEN [text |-> <<"Error retrieving schema: " \o ExcText>>,
          created |-> FALSE, disposed |-> FALSE]
    ELSE [text |-> IF o.exec = "rows"
                   THEN <<"Database Schema:">>
                   ELSE <<"Error retrieving schema: " \o ExcText>>,
          created |-> TRUE, disposed |-> TRUE]

(***************************************************************************)
(* Text helpers: str.strip, str.startswith, str.replace(tok, "").  The     *)
(* Markdown fence of three backquotes is the token "<fence>".               *)
(***************************************************************************)
RECURSIVE DropLeading(_, _)
DropLeading(s, toks) ==
    IF s # <<>> /\ Head(s) \in toks THEN DropLeading(Tail(s), toks) ELSE s

Strip(s) == DropTrailing(DropLeading(s, BlankToks), BlankToks)

StartsWith(s, tok) == s # <<>> /\ s[1] = tok

Remove(s, toks) == SelectSeq(s, LAMBDA t : t \notin toks)

Contains(s, tok) == \E i \in 1..Len(s) : s[i] = tok

\* str(v) of a string or None
Str(v) == IF v = PyNone THEN "None" ELSE v

(***************************************************************************)
(* The stages.  A sequential agent runs its sub-agents in list order; a    *)
(* nested sequential agent is one step of its parent.                      *)
(***************************************************************************)
InsightSubAgents == <<"visualization_agent", "explanation_agent">>

\* A root agent that executes before it translates.
RootSubAgentsExecutorFirst ==
    << <<"sql_executor_agent">>, <<"text_to_sql_agent">>, InsightSubAgents >>

RootSubAgents ==
    << <<"text_to_sql_agent">>, <<"sql_executor_agent">>, InsightSubAgents >>

RECURSIVE Flatten(_)
Flatten(ss) == IF ss = <<>> THEN <<>> ELSE Head(ss) \o Flatten(Tail(ss))

StageOrder == Flatten(RootSubAgents)

\* Output keys of which the visualization stage shares the executor's.
OutputKeyShared(stage) ==
    CASE stage = "text_to_sql_agent" -> "sql_query"
      [] stage = "sql_executor_agent" -> "query_results"
      [] stage = "visualization_agent" -> "query_results"
      [] OTHER -> "explanation_text"

OutputKey(stage) ==
    CASE stage = "text_to_sql_agent" -> "sql_query"
      [] stage = "sql_executor_agent" -> "query_results"
      [] stage = "visualization_agent" -> "chart_spec"
      [] OTHER -> "explanation_text"

\* The state keys the stage's instruction template names.
ReadKeys(stage) ==
    CASE stage = "sql_executor_agent" -> {"sql_query"}
      [] stage = "visualization_agent" -> {"query_results"}
      [] OTHER -> {}

StageTool(stage) ==
    CASE stage = "text_to_sql_agent" -> "get_database_schema"
      [] stage = "sql_executor_agent" -> "execute_sql_and_format"
      [] OTHER -> "none"

(***************************************************************************)
(* What the hosted model may answer.                                       *)
(***************************************************************************)
Messages == {<<>>, <<" ">>, <<"q">>, <<" ", "q">>}

SqlOutputs ==
    {<<"SELECT", "x">>, <<"<fence>sql", "SELECT", "x", "<fence>">>, <<"drop", "x">>}

ChartCodes ==
    {<<"chart = alt.Chart(df)">>, <<"<fence>python", "chart = alt.Chart(df)", "<fence>">>,
     <<"x = 1">>, <<"raise ValueError">>, <<>>}

Explanations == {<<"Sales are up.">>}

Fenced(text) == [text EXCEPT !.fence = "<fence>json"]

Prose == JsonText("garbage", "", 0, NoMembers)
ArrayText == JsonText("array", "", 0, NoMembers)

\* The text {} that results.get(query_results, ...) defaults to
EmptyObjectText == JsonText("object", "", 0, NoMembers)

(***************************************************************************)
(* process_request_async, from the results map on (app.py lines 103-167).  *)
(***************************************************************************)
CleanSql(q) ==
    LET t == Strip(q)
    IN  IF StartsWith(t, "<fence>sql") THEN Strip(Remove(t, {"<fence>sql", "<fence>"}))
        ELSE IF StartsWith(t, "<fence>") THEN Strip(Remove(t, {"<fence>"}))
        ELSE t

CleanChartSpec(c) ==
    LET t == Strip(c)
    IN  IF StartsWith(t, "<fence>python") THEN Strip(Remove(t, {"<fence>python", "<fence>"}))
        ELSE IF StartsWith(t, "<fence>") THEN Strip(Remove(t, {"<fence>"}))
        ELSE t

\* exec(code, namespace): "raise", or whether the namespace then holds chart.
ExecChart(code) ==
    IF \E i \in 1..Len(code) : code[i] \in {"raise ValueError", "<fence>python", "<fence>"}
    THEN "raise"
    ELSE IF Contains(code, "chart = alt.Chart(df)") THEN "chart" ELSE "nochart"

RECURSIVE SetToSeq(_)
SetToSeq(S) ==
    IF S = {} THEN <<>> ELSE LET x == CHOOSE x \in S : TRUE IN <<x>> \o SetToSeq(S \ {x})

\* pd.DataFrame(data_list); pd.DataFrame() for no rows
DataFrameOf(data) ==
    [columns |-> IF data = <<>> THEN <<>> ELSE SetToSeq(DOMAIN data[1]), rows |-> data]

Response(sql, table, chart, summary, path, executed) ==
    [sql |-> sql, table |-> table, chart |-> chart, summary |-> summary,
     path |-> path, executed |-> executed]

\* An exception response that keeps an empty table and no summary.
ErrorResponsePartial(msg) ==
    Response(<<"Error: " \o msg>>, Some(DataFrameOf(<<>>)), None, <<>>, "exception", <<>>)

ErrorResponse(msg) ==
    Response(<<"Error: " \o msg>>, None, None, <<"Error: " \o msg>>, "exception", <<>>)

EmptyInputResponse ==
    Response(<<"Error: Please enter a question">>, None, None,
             <<"Error: No question provided">>, "empty_input", <<>>)

\* A chart step whose exception is not caught where it is raised.
ChartStepUncaught(sql, df, chart_spec, explanation_text) ==
    IF chart_spec = <<>>
    THEN Response(sql, Some(df), None, explanation_text, "full", <<>>)
    ELSE LET code == CleanChartSpec(chart_spec)
         IN  IF ExecChart(code) = "raise"
             THEN ErrorResponse(ExcText)
             ELSE Response(sql, Some(df),
                           IF ExecChart(code) = "chart" THEN Some("chart") ELSE None,
                           explanation_text, "full", <<code>>)

\* A chart step that runs the code without looking whether there is any.
ChartStepNoSpecCheck(sql, df, chart_spec, explanation_text) ==
    LET code == CleanChartSpec(chart_spec)
    IN  Response(sql, Some(df),
                 IF ExecChart(code) = "chart" THEN Some("chart") ELSE None,
                 explanation_text, "full", <<code>>)

\* Lines 139-167: the chart code runs when chart_spec is not empty.
ChartStep(sql, df, chart_spec, explanation_text) ==
    IF chart_spec = <<>>
    THEN Response(sql, Some(df), None, explanation_text, "full", <<>>)
    ELSE LET code == CleanChartSpec(chart_spec)
         IN  Response(sql, Some(df),
                      IF ExecChart(code) = "chart" THEN Some("chart") ELSE None,
                      explanation_text, "full", <<code>>)

ParseFailure ==
    [success |-> FALSE, data |-> <<>>, error |-> "Failed to parse query results"]

\* A failure response that leaves the SQL text out.
QueryFailureDropsSql(sql, query_results) ==
    LET error_msg == Str(DictGet(query_results, "error", "Unknown error"))
    IN  Response(<<"-- Error: " \o error_msg>>, None, None,
                 <<"Error executing query: " \o error_msg>>, "query_error", <<>>)

\* Lines 122-125
QueryFailure(sql, query_results) ==
    LET error_msg == Str(DictGet(query_results, "error", "Unknown error"))
    IN  Response(<<"-- Error executing query">> \o sql \o <<"-- Error: " \o error_msg>>,
                 None, None, <<"Error executing query: " \o error_msg>>,
                 "query_error", <<>>)

Present(results) ==
    LET sql == CleanSql(DictGet(results, "sql_query", <<>>))
        loaded == JsonLoads(DictGet(results, "query_results", EmptyObjectText))
        query_results == IF loaded.raised THEN ParseFailure ELSE loaded.dict
    IN  IF ~loaded.raised /\ loaded.type # "dict"
        THEN ErrorResponse(loaded.type \o " object has no attribute get")
        ELSE IF ~DictGet(query_results, "success", FALSE)
        THEN QueryFailure(sql, query_results)
        ELSE LET data_list == DictGet(query_results, "data", <<>>)
             IN  IF data_list = <<>>
                 THEN Response(sql, Some(DataFrameOf(<<>>)), None,
                               <<"The query executed successfully but returned no data.">>,
                               "no_data", <<>>)
                 ELSE ChartStep(sql, DataFrameOf(data_list),
                                DictGet(results, "chart_spec", <<>>),
                                DictGet(results, "explanation_text", <<>>))

(***************************************************************************)
(* State.                                                                  *)
(***************************************************************************)
VARIABLES
    env,        \* the credentials found in the environment
    call,       \* the most recent call of a query function and what it returned
    svc,        \* the BIService object
    dbtools,    \* the DatabaseTools object: "none" or "live" (its engine)
    req,        \* per request: the run of process_request_async
    ev,         \* the run of evaluate()
    sch         \* the catalog of the database and the calls of get_schema_info

vars == <<env, call, svc, dbtools, req, ev, sch>>

ReqIds == {1, 2}

NoMap == [k \in {} |-> <<>>]

NoResponse == Response(<<>>, None, None, <<>>, "none", <<>>)

\* A request nobody has submitted yet.
IdleRequest ==
    [pc |-> "idle", msg |-> <<>>, state |-> NoMap, results |-> NoMap, idx |-> 0,
     phase |-> "", log |-> <<>>, calls |-> <<>>, created |-> 0, disposed |-> 0,
     sessions |-> 0, exc |-> "", out |-> NoResponse]

\* evaluate() before it is called.  generated_sql is None while unbound.
EvIdle ==
    [pc |-> "idle", n |-> 0, i |-> 0, retry_count |-> 0, generated_sql |-> None,
     waits |-> <<>>, attempts |-> 0, events |-> 0, exit |-> "", emitted |-> {},
     exc |-> "", executed |-> <<>>, score |-> 0, created |-> 0, disposed |-> 0]

\* No catalog is being read.
SchIdle ==
    [pc |-> "idle", catalog |-> <<>>, max_tables |-> 0, ok |-> FALSE,
     text |-> <<>>, prev |-> <<>>, calls |-> 0]

NoCall == [fn |-> "none", sql |-> <<>>, raised |-> FALSE, executed |-> FALSE,
           created |-> FALSE, disposed |-> FALSE, ret |-> <<>>, frame |-> None]

\* The frame the database gave to a call that executed its statement.
FrameOf(executed, o) == IF executed /\ o.exec = "rows" THEN Some(o.df) ELSE None

ToolInit ==
    /\ env \in Envs
    /\ call = NoCall
    /\ svc = NewService
    /\ dbtools = "none"
    /\ req = [r \in ReqIds |-> IdleRequest]
    /\ ev = EvIdle
    /\ sch = SchIdle

(***************************************************************************)
(* The query functions, each called (when no call is pending) with any     *)
(* statement against any database behaviour.                               *)
(***************************************************************************)
CallExecuteSqlAndFormat ==
    \E sql \in Statements, o \in DbOutcomesSmall :
        LET r == ExecuteSqlAndFormat(sql, env, o)
        IN  /\ call.fn = "none"
            /\ call' = [fn |-> "execute_sql_and_format", sql |-> sql, raised |-> FALSE,
                        executed |-> r.executed, created |-> r.created,
                        disposed |-> r.disposed, ret |-> r.out,
                        frame |-> FrameOf(r.executed, o)]
            /\ UNCHANGED <<env, svc, dbtools, req, ev, sch>>

\* DatabaseTools(server, database, username, password)
ConstructDatabaseTools ==
    \E o \in DbOutcomesSmall :
        /\ call.fn = "none"
        /\ dbtools' = IF o.engine = "raise" THEN dbtools ELSE "live"
        /\ UNCHANGED <<env, call, svc, req, ev, sch>>

CallExecuteSqlQuery ==
    /\ dbtools = "live"
    /\ call.fn = "none"
    /\ \E sql \in Statements, o \in DbOutcomesSmall :
        LET r == ExecuteSqlQuery(sql, o)
        IN  /\ o.engine = "ok"
            /\ call' = [fn |-> "execute_sql_query", sql |-> sql, raised |-> r.raised,
                        executed |-> r.executed, created |-> FALSE, disposed |-> FALSE,
                        ret |-> r.dict, frame |-> FrameOf(r.executed, o)]
            /\ UNCHANGED <<env, svc, dbtools, req, ev, sch>>

CallServiceConnect ==
    \E o \in DbOutcomesSmall :
        /\ call.fn = "none"
        /\ svc' = ServiceConnect(svc, o).svc
        /\ UNCHANGED <<env, call, dbtools, req, ev, sch>>

CallServiceExecuteSql ==
    \E sql \in Statements, o \in DbOutcomesSmall :
        LET r == ServiceExecuteSql(svc.engine, sql, o)
        IN  /\ call.fn = "none"
            /\ o.engine = "ok"
            /\ call' = [fn |-> "BIService.execute_sql", sql |-> sql, raised |-> r.raised,
                        executed |-> r.executed, created |-> FALSE, disposed |-> FALSE,
                        ret |-> r.result, frame |-> FrameOf(r.executed, o)]
            /\ UNCHANGED <<env, svc, dbtools, req, ev, sch>>

CallServiceClose ==
    /\ call.fn = "none"
    /\ svc' = ServiceClose(svc)
    /\ UNCHANGED <<env, call, dbtools, req, ev, sch>>

\* The caller has taken the returned value.
CallReturn ==
    /\ call.fn # "none"
    /\ call' = NoCall
    /\ UNCHANGED <<env, svc, dbtools, req, ev, sch>>

ToolNext ==
    \/ CallExecuteSqlAndFormat
    \/ ConstructDatabaseTools
    \/ CallExecuteSqlQuery
    \/ CallServiceConnect
    \/ CallServiceExecuteSql
    \/ CallServiceClose
    \/ CallReturn

SpecTool == ToolInit /\ [][ToolNext]_vars

(***************************************************************************)
(* One request: process_request_async(message), run_bi_pipeline_async and  *)
(* the run of root_runner over the stages.                                 *)
(***************************************************************************)
ReqInit ==
    /\ env \in Envs
    /\ call = NoCall
    /\ svc = NewService
    /\ dbtools = "none"
    /\ req = [r \in ReqIds |-> IdleRequest]
    /\ ev = EvIdle
    /\ sch = SchIdle

Stage(r) == StageOrder[req[r].idx]

\* One session for every request.
SessionOfShared(r) == 1

\* create_session (app.py lines 43-46) makes a new session with an id of its
\* own for each request; the state of the session is kept under that id.
SessionOf(r) == r

SessionState(r) == req[SessionOf(r)].state

\* The requests rq with the state of the session of request r set to st.
WithSessionState(rq, r, st) == [rq EXCEPT ![SessionOf(r)].state = st]

\* An input check that takes only the empty string for empty.
EmptyInputNoStrip(message) == message = <<>>

\* Line 97: not message.strip()
EmptyInput(message) == Strip(message) = <<>>

\* Lines 95-101 and 43-46: the input check, then a fresh session.
Begin(r) ==
    /\ req[r].pc = "idle"
    /\ \E m \in Messages :
        req' = IF EmptyInput(m)
               THEN [req EXCEPT ![r] =
                        [@ EXCEPT !.pc = "done", !.msg = m, !.out = EmptyInputResponse]]
               ELSE WithSessionState(
                        [req EXCEPT ![r] =
                            [@ EXCEPT !.pc = "schema", !.msg = m, !.sessions = @ + 1]],
                        r, NoMap)
    /\ UNCHANGED <<env, call, svc, dbtools, ev, sch>>

\* Lines 48-70: the schema text goes into the prompt, whatever it says; the
\* results map starts empty and the run of the root agent starts.
GetSchema(r) ==
    /\ req[r].pc = "schema"
    /\ \E o \in DbOutcomesSmall :
        LET g == GetDatabaseSchema(env, o)
        IN  /\ o.df = EmptyFrame
            /\ req' = [req EXCEPT ![r] =
                  [@ EXCEPT !.pc = "stage", !.idx = 1, !.phase = "start",
                            !.results = NoMap,
                            !.created = @ + (IF g.created THEN 1 ELSE 0),
                            !.disposed = @ + (IF g.disposed THEN 1 ELSE 0)]]
    /\ UNCHANGED <<env, call, svc, dbtools, ev, sch>>

\* The exception leaves run_bi_pipeline_async; its results map is lost.
Raise(q, msg) == [q EXCEPT !.pc = "raised", !.exc = msg]

\* The agent starts; filling its instruction template raises KeyError when
\* a state key it names is missing.
StageStart(r) ==
    /\ req[r].pc = "stage"
    /\ req[r].phase = "start"
    /\ LET started == [req[r] EXCEPT !.log = Append(@, <<"start", Stage(r)>>)]
       IN  req' = [req EXCEPT ![r] =
                IF ReadKeys(Stage(r)) \subseteq DOMAIN SessionState(r)
                THEN [started EXCEPT !.phase = "model"]
                ELSE Raise(started, "Context variable not found")]
    /\ UNCHANGED <<env, call, svc, dbtools, ev, sch>>

\* A call of the hosted model fails.
ModelRaise(r) ==
    /\ req[r].pc = "stage"
    /\ req[r].phase = "model"
    /\ \E msg \in {ExcText, RateLimitText} :
        req' = [req EXCEPT ![r] = Raise(@, msg)]
    /\ UNCHANGED <<env, call, svc, dbtools, ev, sch>>

\* The statements the executor stage may hand to its tool.
ToolArguments(r) ==
    {SessionState(r)["sql_query"], CleanSql(SessionState(r)["sql_query"])}

\* The model of the executor stage calls execute_sql_and_format.
ModelCallsQueryTool(r) ==
    /\ req[r].pc = "stage"
    /\ req[r].phase = "model"
    /\ StageTool(Stage(r)) = "execute_sql_and_format"
    /\ Len(req[r].calls) < MaxToolCalls
    /\ \E sql \in ToolArguments(r), o \in DbOutcomesSmall :
        LET t == ExecuteSqlAndFormat(sql, env, o)
        IN  /\ o.df \in {EmptyFrame, Frame(<<Row("a")>>), Frame(<<Row("Timestamp")>>)}
            /\ req' = [req EXCEPT ![r] =
                  [@ EXCEPT !.calls = Append(@, [tool |-> "execute_sql_and_format",
                                                 sql |-> sql, out |-> t.out,
                                                 executed |-> t.executed]),
                            !.created = @ + (IF t.created THEN 1 ELSE 0),
                            !.disposed = @ + (IF t.disposed THEN 1 ELSE 0)]]
    /\ UNCHANGED <<env, call, svc, dbtools, ev, sch>>

\* The model of the text-to-SQL stage calls get_database_schema.
ModelCallsSchemaTool(r) ==
    /\ req[r].pc = "stage"
    /\ req[r].phase = "model"
    /\ StageTool(Stage(r)) = "get_database_schema"
    /\ Len(req[r].calls) < MaxToolCalls
    /\ \E o \in DbOutcomesSmall :
        LET g == GetDatabaseSchema(env, o)
        IN  /\ o.df = EmptyFrame
            /\ o.exec = "rows"
            /\ req' = [req EXCEPT ![r] =
                  [@ EXCEPT !.calls = Append(@, [tool |-> "get_database_schema",
                                                 sql |-> <<>>, out |-> Prose,
                                                 executed |-> FALSE]),
                            !.created = @ + (IF g.created THEN 1 ELSE 0),
                            !.disposed = @ + (IF g.disposed THEN 1 ELSE 0)]]
    /\ UNCHANGED <<env, call, svc, dbtools, ev, sch>>

\* The texts the stage's model may give as its final answer.
ToolOutputs(q) ==
    {q.calls[i].out : i \in {j \in 1..Len(q.calls) : q.calls[j].tool = "execute_sql_and_format"}}

FinalTexts(stage, q) ==
    CASE stage = "text_to_sql_agent" -> SqlOutputs
      [] stage = "sql_executor_agent" ->
            ToolOutputs(q) \cup {Fenced(t) : t \in ToolOutputs(q)} \cup {Prose, ArrayText}
      [] stage = "visualization_agent" -> ChartCodes
      [] OTHER -> Explanations

\* The stage is over and the next one may start; after the last, the run is over.
Advance(q) ==
    IF q.idx = Len(StageOrder)
    THEN [q EXCEPT !.pc = "present", !.phase = "", !.log = Append(@, <<"end", StageOrder[q.idx]>>)]
    ELSE [q EXCEPT !.idx = @ + 1, !.phase = "start",
                   !.log = Append(@, <<"end", StageOrder[q.idx]>>)]

Put(m, k, v) == [x \in DOMAIN m \cup {k} |-> IF x = k THEN v ELSE m[x]]

\* The final answer of the stage: output_key saves it into the session state,
\* and the event's state_delta reaches the loop of lines 71-74.
ModelFinal(r) ==
    /\ req[r].pc = "stage"
    /\ req[r].phase = "model"
    /\ \E t \in FinalTexts(Stage(r), req[r]) :
        req' = WithSessionState(
                  [req EXCEPT ![r] =
                      Advance([@ EXCEPT !.results = Put(@, OutputKey(Stage(r)), t)])],
                  r, Put(SessionState(r), OutputKey(Stage(r)), t))
    /\ UNCHANGED <<env, call, svc, dbtools, ev, sch>>

\* The final answer has no text: nothing is saved.
ModelFinalEmpty(r) ==
    /\ req[r].pc = "stage"
    /\ req[r].phase = "model"
    /\ req' = [req EXCEPT ![r] = Advance(@)]
    /\ UNCHANGED <<env, call, svc, dbtools, ev, sch>>

\* Lines 103-167.
PresentResults(r) ==
    /\ req[r].pc = "present"
    /\ req' = [req EXCEPT ![r] = [@ EXCEPT !.pc = "done", !.out = Present(req[r].results)]]
    /\ UNCHANGED <<env, call, svc, dbtools, ev, sch>>

\* Lines 169-174: an exception of the pipeline.
PresentException(r) ==
    /\ req[r].pc = "raised"
    /\ req' = [req EXCEPT ![r] = [@ EXCEPT !.pc = "done", !.out = ErrorResponse(req[r].exc)]]
    /\ UNCHANGED <<env, call, svc, dbtools, ev, sch>>

RequestStep(r) ==
    \/ Begin(r)
    \/ GetSchema(r)
    \/ StageStart(r)
    \/ ModelRaise(r)
    \/ ModelCallsQueryTool(r)
    \/ ModelCallsSchemaTool(r)
    \/ ModelFinal(r)
    \/ ModelFinalEmpty(r)
    \/ PresentResults(r)
    \/ PresentException(r)

Next == RequestStep(1)

Spec == ReqInit /\ [][Next]_vars

(***************************************************************************)
(* Two requests processed concurrently, their steps interleaved in any     *)
(* order.  To keep the product of the two runs small the hosted model and  *)
(* the database answer from fewer alternatives here.                       *)
(***************************************************************************)
ConcSqlOutputs == {<<"SELECT", "x">>, <<"drop", "x">>}

ConcRequest(q) ==
    /\ q.msg \in {<<>>, <<"q">>}
    /\ q.exc \in {"", ExcText}
    /\ Len(q.calls) < MaxToolCalls
    /\ \A i \in 1..Len(q.calls) :
          q.calls[i].executed => JsonLoads(q.calls[i].out).dict.row_count = 1
    /\ \A k \in DOMAIN q.results :
          CASE k = "sql_query" -> q.results[k] \in ConcSqlOutputs
            [] k = "query_results" -> q.results[k].fence = "" /\ q.results[k].form = "object"
            [] k = "chart_spec" -> q.results[k] = <<"chart = alt.Chart(df)">>
            [] OTHER -> TRUE

ConcInit ==
    /\ ReqInit
    /\ env \in {[c \in CredNames |-> TRUE]}

ConcStep(r) ==
    \/ Begin(r) /\ ConcRequest(req'[r])
    \/ GetSchema(r) /\ ConcRequest(req'[r])
    \/ StageStart(r) /\ ConcRequest(req'[r])
    \/ ModelRaise(r) /\ ConcRequest(req'[r])
    \/ ModelCallsQueryTool(r) /\ ConcRequest(req'[r])
    \/ ModelCallsSchemaTool(r) /\ ConcRequest(req'[r])
    \/ ModelFinal(r) /\ ConcRequest(req'[r])
    \/ ModelFinalEmpty(r) /\ ConcRequest(req'[r])
    \/ PresentResults(r) /\ ConcRequest(req'[r])
    \/ PresentException(r) /\ ConcRequest(req'[r])

ConcNext == \E r \in ReqIds : ConcStep(r)

SpecConc == ConcInit /\ [][ConcNext]_vars

(***************************************************************************)
(* evaluate() of evaluate_sql.py.                                          *)
(***************************************************************************)
EvalSqlOutputs == {<<"SELECT", "x">>, <<"<fence>sql", "SELECT", "x", "<fence>">>}

GroundTruthSql == <<"SELECT", "x">>

EvalFrames == {EmptyFrame, Frame(<<Row("a")>>)}

IsRateLimit(msg) == msg = RateLimitText

\* Line 96
EvalCleanSql(q) == Strip(Remove(q, {"<fence>sql", "<fence>"}))

\* A wait that doubles with every retry.
WaitTimeDoubling(retry_count) == WaitStep * 2 ^ (retry_count - 1)

\* Line 82
WaitTime(retry_count) == retry_count * WaitStep

EvalInit ==
    /\ env \in Envs
    /\ call = NoCall
    /\ svc = NewService
    /\ dbtools = "none"
    /\ req = [r \in ReqIds |-> IdleRequest]
    /\ ev = [EvIdle EXCEPT !.pc = "connect"]
    /\ sch = SchIdle

\* Lines 21-30: a failed connect returns at once.
EvalConnect ==
    /\ ev.pc = "connect"
    /\ \E o \in DbOutcomesSmall :
        LET c == ServiceConnect(svc, o)
        IN  /\ o.df = EmptyFrame
            /\ svc' = c.svc
            /\ ev' = [ev EXCEPT !.pc = IF c.ok THEN "load" ELSE "returned"]
    /\ UNCHANGED <<env, call, dbtools, req, sch>>

\* Lines 32-37: without the file of cases evaluate() returns.
EvalNoCases ==
    /\ ev.pc = "load"
    /\ ev' = [ev EXCEPT !.pc = "returned"]
    /\ UNCHANGED <<env, call, svc, dbtools, req, sch>>

\* Lines 32-41: the cases are read, the score starts at 0, the schema is fetched.
EvalLoadCases ==
    /\ ev.pc = "load"
    /\ \E n \in 0..MaxCases, o \in DbOutcomesSmall :
        LET g == GetDatabaseSchema(env, o)
        IN  /\ o.df = EmptyFrame
            /\ ev' = [ev EXCEPT !.pc = "case", !.n = n, !.i = 1, !.score = 0,
                                !.created = @ + (IF g.created THEN 1 ELSE 0),
                                !.disposed = @ + (IF g.disposed THEN 1 ELSE 0)]
    /\ UNCHANGED <<env, call, svc, dbtools, req, sch>>

\* Lines 42-54: the next case starts with retry_count = 0.
EvalCaseStart ==
    /\ ev.pc = "case"
    /\ ev.i <= ev.n
    /\ ev' = [ev EXCEPT !.pc = "loop", !.retry_count = 0, !.waits = <<>>,
                        !.attempts = 0, !.exit = "", !.emitted = {}, !.exc = ""]
    /\ UNCHANGED <<env, call, svc, dbtools, req, sch>>

\* Line 56: the loop condition.
EvalLoopHead ==
    /\ ev.pc = "loop"
    /\ ev' = IF ev.retry_count < max_retries
             THEN [ev EXCEPT !.pc = "session", !.attempts = @ + 1]
             ELSE [ev EXCEPT !.pc = "afterloop", !.exit = "exhausted"]
    /\ UNCHANGED <<env, call, svc, dbtools, req, sch>>

\* A handler that waits and retries after every exception.
HandleRetriesAll(e, msg) ==
    [e EXCEPT !.pc = "loop", !.exc = msg, !.retry_count = @ + 1,
              !.waits = Append(@, WaitTime(e.retry_count + 1))]

\* Lines 77-88: the handler of an exception with text msg.
Handle(e, msg) ==
    IF IsRateLimit(msg)
    THEN [e EXCEPT !.pc = "loop", !.exc = msg, !.retry_count = @ + 1,
                   !.waits = Append(@, WaitTime(e.retry_count + 1))]
    ELSE [e EXCEPT !.pc = "afterloop", !.exc = msg, !.generated_sql = Some(<<>>),
                   !.exit = "error"]

\* Lines 58-69: the session and the message are made and generated_sql is
\* set to the empty string.
EvalSession ==
    /\ ev.pc = "session"
    /\ ev' = [ev EXCEPT !.pc = "events", !.generated_sql = Some(<<>>), !.events = 0]
    /\ UNCHANGED <<env, call, svc, dbtools, req, sch>>

\* Lines 58-67 raise before generated_sql is assigned.
EvalSessionRaises ==
    /\ ev.pc = "session"
    /\ \E msg \in {ExcText, RateLimitText} : ev' = Handle(ev, msg)
    /\ UNCHANGED <<env, call, svc, dbtools, req, sch>>

\* Lines 70-72: an event with a state delta; without sql_query in it the
\* variable becomes the empty string.
EvalEvent ==
    /\ ev.pc = "events"
    /\ ev.events < MaxEvents
    /\ \E q \in EvalSqlOutputs \cup {<<>>} :
        ev' = [ev EXCEPT !.generated_sql = Some(q), !.events = @ + 1,
                         !.emitted = IF q = <<>> THEN @ ELSE @ \cup {q}]
    /\ UNCHANGED <<env, call, svc, dbtools, req, sch>>

\* The run of the agent raises while its events are read.
EvalEventRaises ==
    /\ ev.pc = "events"
    /\ \E msg \in {ExcText, RateLimitText} : ev' = Handle(ev, msg)
    /\ UNCHANGED <<env, call, svc, dbtools, req, sch>>

\* Line 75: the events are over, break.
EvalEventsDone ==
    /\ ev.pc = "events"
    /\ ev' = [ev EXCEPT !.pc = "afterloop", !.exit = "break"]
    /\ UNCHANGED <<env, call, svc, dbtools, req, sch>>

\* Line 90 reads generated_sql; unbound, the NameError leaves evaluate().
EvalUnbound ==
    /\ ev.pc = "afterloop"
    /\ ev.generated_sql = None
    /\ ev' = [ev EXCEPT !.pc = "crashed"]
    /\ UNCHANGED <<env, call, svc, dbtools, req, sch>>

\* Lines 90-92: no SQL, next case.
EvalSkip ==
    /\ ev.pc = "afterloop"
    /\ ev.generated_sql = Some(<<>>)
    /\ ev' = [ev EXCEPT !.pc = "case", !.i = @ + 1]
    /\ UNCHANGED <<env, call, svc, dbtools, req, sch>>

\* Lines 96-116: both statements are executed and the frames compared; an
\* exception of either execution is caught.
EvalCheck ==
    /\ ev.pc = "afterloop"
    /\ ev.generated_sql # None
    /\ ev.generated_sql # Some(<<>>)
    /\ \E o1 \in DbOutcomesSmall, o2 \in DbOutcomesSmall :
        LET sql == EvalCleanSql(ev.generated_sql[1])
            res_gen == ServiceExecuteSql(svc.engine, sql, o1)
            res_truth == ServiceExecuteSql(svc.engine, GroundTruthSql, o2)
            correct == /\ ~res_gen.raised /\ ~res_truth.raised
                       /\ res_gen.result.success /\ res_truth.result.success
                       /\ res_gen.result.data = res_truth.result.data
        IN  /\ o1.engine = "ok" /\ o2.engine = "ok"
            /\ o1.df \in EvalFrames /\ o2.df \in EvalFrames
            /\ ev' = [ev EXCEPT !.pc = "case", !.i = @ + 1,
                                !.generated_sql = Some(sql),
                                !.score = IF correct THEN @ + 1 ELSE @,
                                !.executed = Append(@, [case |-> ev.i, sql |-> sql,
                                    emitted |-> ev.generated_sql[1] \in ev.emitted,
                                    exit |-> ev.exit])]
    /\ UNCHANGED <<env, call, svc, dbtools, req, sch>>

\* Lines 118-119: the score is printed and the service closed.
EvalFinish ==
    /\ ev.pc = "case"
    /\ ev.i > ev.n
    /\ svc' = ServiceClose(svc)
    /\ ev' = [ev EXCEPT !.pc = "returned"]
    /\ UNCHANGED <<env, call, dbtools, req, sch>>

EvalNext ==
    \/ EvalConnect
    \/ EvalNoCases
    \/ EvalLoadCases
    \/ EvalCaseStart
    \/ EvalLoopHead
    \/ EvalSession
    \/ EvalSessionRaises
    \/ EvalEvent
    \/ EvalEventRaises
    \/ EvalEventsDone
    \/ EvalUnbound
    \/ EvalSkip
    \/ EvalCheck
    \/ EvalFinish

SpecEval == EvalInit /\ [][EvalNext]_vars

(***************************************************************************)
(* get_schema_info(engine, max_tables) of db_config.py.  A catalog maps    *)
(* each base table <<schema, table>> to its column names in ordinal        *)
(* position.                                                               *)
(***************************************************************************)
SchemaNames == {"dbo", "sales"}
TableNames == {"A", "B"}

\* The order in which the database compares names.
Collation == <<"A", "B", "dbo", "sales">>

Rank(n) == CHOOSE i \in 1..Len(Collation) : Collation[i] = n

Layouts == {<<"id">>, <<"name", "id">>}

AllTables == SchemaNames \X TableNames

Catalogs == UNION {[T -> Layouts] : T \in SUBSET AllTables}

DataType(column) == IF column = "id" THEN "int" ELSE "nvarchar"

IsNullable(column) == IF column = "id" THEN "NO" ELSE "YES"

\* Lines 94-106: the join of TABLES and COLUMNS, one row per column.
CatalogRows(catalog) ==
    UNION {{[schema |-> t[1], table |-> t[2], column |-> catalog[t][i],
             type |-> DataType(catalog[t][i]), nullable |-> IsNullable(catalog[t][i]),
             position |-> i] : i \in 1..Len(catalog[t])} : t \in DOMAIN catalog}

\* An ORDER BY that leaves the column position out.
OrderKeyNoPosition(row) == <<Rank(row.schema), Rank(row.table), 0>>

\* Line 107: ORDER BY TABLE_SCHEMA, TABLE_NAME, ORDINAL_POSITION
OrderKey(row) == <<Rank(row.schema), Rank(row.table), row.position>>

KeyLess(j, k) ==
    \/ j[1] < k[1]
    \/ j[1] = k[1] /\ j[2] < k[2]
    \/ j[1] = k[1] /\ j[2] = k[2] /\ j[3] < k[3]

\* Lines 110-111: the rows in the order of the ORDER BY; rows the key does
\* not separate come in an order the database picks.
RECURSIVE FetchAll(_, _)
FetchAll(S, pick) ==
    IF S = {} THEN <<>>
    ELSE LET least == {x \in S : \A y \in S : ~KeyLess(OrderKey(y), OrderKey(x))}
             m == IF pick = "ascending"
                  THEN CHOOSE x \in least : \A y \in least : x.position <= y.position
                  ELSE CHOOSE x \in least : \A y \in least : x.position >= y.position
         IN  <<m>> \o FetchAll(S \ {m}, pick)

\* Line 118
FullTableName(row) == row.schema \o "." \o row.table

\* Lines 114-133: the dict tables, its keys in insertion order.
RECURSIVE Organize(_, _, _)
Organize(rows, keys, columns) ==
    IF rows = <<>> THEN [keys |-> keys, columns |-> columns]
    ELSE LET row == Head(rows)
             name == FullTableName(row)
             column_info == [name |-> row.column, type |-> row.type, nullable |-> row.nullable]
         IN  IF name \in DOMAIN columns
             THEN Organize(Tail(rows), keys,
                           [columns EXCEPT ![name] = Append(@, column_info)])
             ELSE Organize(Tail(rows), Append(keys, name),
                           [k \in DOMAIN columns \cup {name} |->
                               IF k = name THEN <<column_info>> ELSE columns[k]])

\* One line of the schema text.
Line(kind, name, type, nullable, n) ==
    [kind |-> kind, name |-> name, type |-> type, nullable |-> nullable, n |-> n]

\* A cut that keeps one table more than max_tables.
TableNamesCutLate(keys, max_tables) ==
    SubSeq(keys, 1, IF max_tables + 1 < Len(keys) THEN max_tables + 1 ELSE Len(keys))

\* Line 136: list(tables.keys())[:max_tables]
TableNamesCut(keys, max_tables) ==
    SubSeq(keys, 1, IF max_tables < Len(keys) THEN max_tables ELSE Len(keys))

\* Lines 145-147
ColumnLines(cols) ==
    [i \in 1..Len(cols) |->
        Line("Column", cols[i].name, cols[i].type,
             IF cols[i].nullable = "YES" THEN "NULL" ELSE "NOT NULL", 0)]

\* Lines 141-149
RECURSIVE TableLines(_, _)
TableLines(table_names, columns) ==
    IF table_names = <<>> THEN <<>>
    ELSE <<Line("Table", Head(table_names), "", "", 0), Line("Columns:", "", "", "", 0)>>
         \o ColumnLines(columns[Head(table_names)])
         \o <<Line("", "", "", "", 0)>>
         \o TableLines(Tail(table_names), columns)

NoColumns == [k \in {} |-> <<>>]

\* Lines 91-157
GetSchemaInfo(catalog, max_tables, pick, ok) ==
    IF ~ok
    THEN <<Line("Error retrieving schema: " \o ExcText, "", "", "", 0)>>
    ELSE LET tables == Organize(FetchAll(CatalogRows(catalog), pick), <<>>, NoColumns)
             table_names == TableNamesCut(tables.keys, max_tables)
         IN  <<Line("Database Schema:", "", "", "", 0), Line("", "", "", "", 0)>>
             \o TableLines(table_names, tables.columns)
             \o (IF Len(tables.keys) > max_tables
                 THEN <<Line("", "", "", "", 0),
                        Line("... and more tables", "", "", "", Len(tables.keys) - max_tables)>>
                 ELSE <<>>)

SchemaInit ==
    /\ env \in {[c \in CredNames |-> TRUE]}
    /\ call = NoCall
    /\ svc = NewService
    /\ dbtools = "none"
    /\ req = [r \in ReqIds |-> IdleRequest]
    /\ ev = EvIdle
    /\ \E catalog \in Catalogs : sch = [SchIdle EXCEPT !.pc = "ready", !.catalog = catalog]

\* What a call of get_schema_info leaves: its arguments, its text and the
\* text of the call before it.
Called(max_tables, pick, ok) ==
    [sch EXCEPT !.pc = "called", !.max_tables = max_tables, !.ok = ok,
                !.prev = IF sch.calls = 0 \/ max_tables # sch.max_tables
                         THEN <<>> ELSE sch.text,
                !.text = GetSchemaInfo(sch.catalog, max_tables, pick, ok),
                !.calls = IF max_tables # sch.max_tables THEN 1 ELSE 2]

\* get_schema_info(engine, max_tables=n)
CallGetSchemaInfo ==
    /\ sch.pc # "idle"
    /\ \E max_tables \in 0..MaxMaxTables, pick \in {"ascending", "descending"}, ok \in BOOLEAN :
        sch' = Called(max_tables, pick, ok)
    /\ UNCHANGED <<env, call, svc, dbtools, req, ev>>

\* BIService.load_schema(max_tables), lines 72-86: not connected, it raises.
CallLoadSchema ==
    /\ sch.pc # "idle"
    /\ \E max_tables \in 0..MaxMaxTables, pick \in {"ascending", "descending"}, ok \in BOOLEAN :
        sch' = IF svc.engine = "none"
               THEN [sch EXCEPT !.pc = "raised"]
               ELSE Called(max_tables, pick, ok)
    /\ UNCHANGED <<env, call, svc, dbtools, req, ev>>

\* The service connects once, before it loads the schema.
SchemaConnect ==
    /\ svc.lastConnect = "never"
    /\ CallServiceConnect

SchemaNext ==
    \/ SchemaConnect
    \/ CallGetSchemaInfo
    \/ CallLoadSchema

SpecSchema == SchemaInit /\ [][SchemaNext]_vars

(***************************************************************************)
(* The envelope a call returned, as a Python dict.                         *)
(***************************************************************************)
Returned(fn) == call.fn = fn /\ ~call.raised

CallEnvelope ==
    IF call.fn = "execute_sql_and_format" THEN JsonLoads(call.ret).dict ELSE call.ret

\* Empty data: an empty list for the tools, None or an empty frame for BIService.
DataEmpty(d) ==
    IF call.fn = "BIService.execute_sql"
    THEN d.data = None \/ DfEmpty(d.data[1])
    ELSE d.data = <<>>

(***************************************************************************)
(* C1: for every statement whose leading keyword, after comments and in    *)
(* any letter case, is INSERT, UPDATE, DELETE, DROP, ALTER or TRUNCATE,    *)
(* execute_sql_and_format and DatabaseTools.execute_sql_query return an    *)
(* envelope with success = false and the statement does not reach the      *)
(* database.                                                               *)
(***************************************************************************)
C1_NonSelectRejected ==
    (call.fn \in {"execute_sql_and_format", "execute_sql_query"} /\ IsNonSelect(call.sql))
        => /\ ~call.raised
           /\ ~call.executed
           /\ "success" \in DOMAIN CallEnvelope
           /\ CallEnvelope.success = FALSE

C1_Witness ==
    /\ Returned("execute_sql_and_format")
    /\ call.sql = <<"--c", "drop", "x">>
    /\ call.created
    /\ call.disposed

(***************************************************************************)
(* C2: every envelope with success = false returned by                     *)
(* execute_sql_and_format, DatabaseTools.execute_sql_query or              *)
(* BIService.execute_sql has a non-empty error string, empty data, empty   *)
(* columns and row_count = 0.                                              *)
(***************************************************************************)
C2_FailureEnvelopeShape ==
    (call.fn # "none" /\ ~call.raised /\ ~CallEnvelope.success)
        => /\ CallEnvelope.error # PyNone
           /\ CallEnvelope.error # ""
           /\ DataEmpty(CallEnvelope)
           /\ CallEnvelope.columns = <<>>
           /\ CallEnvelope.row_count = 0

\* The failure path of an exception inside the tool, after the engine was made.
C2_Witness ==
    /\ Returned("execute_sql_and_format")
    /\ call.created
    /\ ~call.disposed
    /\ ~CallEnvelope.success

(***************************************************************************)
(* What a finished request shows, read from the state the run left.        *)
(***************************************************************************)
IsPrefix(s, t) == Len(s) <= Len(t) /\ \A i \in 1..Len(s) : s[i] = t[i]

\* s occurs in t as a run of consecutive tokens
OccursIn(s, t) ==
    \E k \in 0..(Len(t) - Len(s)) : \A i \in 1..Len(s) : t[k + i] = s[i]

Done(r) == req[r].pc = "done"

SqlProduced(r) == "sql_query" \in DOMAIN req[r].state

\* The run ended normally and the parsed query_results has success and rows.
HasRows(r) ==
    /\ req[r].exc = ""
    /\ "query_results" \in DOMAIN req[r].results
    /\ LET loaded == JsonLoads(req[r].results["query_results"])
       IN  /\ ~loaded.raised
           /\ loaded.type = "dict"
           /\ DictGet(loaded.dict, "success", FALSE)
           /\ DictGet(loaded.dict, "data", <<>>) # <<>>

RowsOf(r) == JsonLoads(req[r].results["query_results"]).dict.data

ChartSpecOf(r) == DictGet(req[r].results, "chart_spec", <<>>)

\* The chart code raises, or leaves no variable named chart.
ChartFails(r) ==
    /\ HasRows(r)
    /\ ChartSpecOf(r) # <<>>
    /\ ExecChart(CleanChartSpec(ChartSpecOf(r))) \in {"raise", "nochart"}

(***************************************************************************)
(* C5: once the text-to-SQL stage has produced sql_query, a failure of any *)
(* later stage or step (a model call raises, the query fails, the results  *)
(* cannot be parsed, the chart code fails) still leaves the generated SQL  *)
(* in the first output, together with an explicit failure indication.      *)
(***************************************************************************)
LaterFailure(r) ==
    \/ req[r].out.path \in {"exception", "query_error"}
    \/ ChartFails(r)

C5_PartialStateShown ==
    \A r \in ReqIds :
        (Done(r) /\ SqlProduced(r) /\ LaterFailure(r))
            => /\ OccursIn(CleanSql(req[r].state["sql_query"]), req[r].out.sql)
               /\ req[r].out.path \in {"exception", "query_error"}

C8_ToolOutputVerbatim ==
    \A r \in ReqIds :
        "query_results" \in DOMAIN req[r].results
            => \E i \in 1..Len(req[r].calls) :
                  /\ req[r].calls[i].tool = "execute_sql_and_format"
                  /\ req[r].calls[i].out = req[r].results["query_results"]

(***************************************************************************)
(* C9: with a credential missing the request fails at once with the        *)
(* configuration error: no engine is created, no stage of the model runs.  *)
(***************************************************************************)
C9_MissingCredentialsFailFast ==
    \A r \in ReqIds :
        (~AllCreds(env) /\ req[r].pc \notin {"idle", "schema"})
            => /\ req[r].created = 0
               /\ req[r].log = <<>>

(***************************************************************************)
(* C10: the stages run in the order text_to_sql_agent, sql_executor_agent, *)
(* visualization_agent, explanation_agent, each starting only after the    *)
(* one before it has ended, and every state key a running stage reads was  *)
(* written by a stage that ended earlier in the same run.                  *)
(***************************************************************************)
ExpectedLog ==
    << <<"start", "text_to_sql_agent">>, <<"end", "text_to_sql_agent">>,
       <<"start", "sql_executor_agent">>, <<"end", "sql_executor_agent">>,
       <<"start", "visualization_agent">>, <<"end", "visualization_agent">>,
       <<"start", "explanation_agent">>, <<"end", "explanation_agent">> >>

\* The stage started at log position i got past its template.
Reading(r, i) ==
    /\ req[r].log[i][1] = "start"
    /\ i < Len(req[r].log) \/ (req[r].pc = "stage" /\ req[r].phase = "model")

C3_ThreeFailuresThenSuccess ==
    (ev.pc = "afterloop" /\ ev.exit = "exhausted") => ev.attempts > max_retries

(***************************************************************************)
(* C4 as stated: the wait before each successive retry grows               *)
(* exponentially: each wait is the previous wait times one constant factor *)
(* greater than one.                                                       *)
(***************************************************************************)
C4_ExponentialBackoff ==
    /\ \A k \in 2..Len(ev.waits) : ev.waits[k] > ev.waits[k - 1]
    /\ \A k \in 2..(Len(ev.waits) - 1) :
        ev.waits[k + 1] * ev.waits[k - 1] = ev.waits[k] * ev.waits[k]

(***************************************************************************)
(* C4 as the code has it: the wait before each successive retry grows      *)
(* linearly: the wait before retry k is k times 20 seconds, each wait      *)
(* being the previous wait plus 20 seconds.                                *)
(***************************************************************************)
C4_LinearBackoff ==
    /\ \A k \in 1..Len(ev.waits) : ev.waits[k] = k * WaitStep
    /\ \A k \in 2..Len(ev.waits) : ev.waits[k] = ev.waits[k - 1] + WaitStep

C4_Witness ==
    /\ ev.pc = "loop"
    /\ Len(ev.waits) = max_retries

(***************************************************************************)
(* C7: every engine created by execute_sql_and_format or                   *)
(* get_database_schema is disposed before the function returns, and the    *)
(* connection of evaluate() is closed on every path by which evaluate()    *)
(* returns.                                                                *)
(***************************************************************************)
C7_EnginesReleased ==
    /\ (call.fn = "execute_sql_and_format" /\ call.created) => call.disposed
    /\ \A r \in ReqIds : Done(r) => req[r].created = req[r].disposed
    /\ ev.pc = "returned" => (svc.engine = "none" /\ ev.created = ev.disposed)

(***************************************************************************)
(* C11: during one pipeline run the results map is populated               *)
(* monotonically: it starts empty when the run starts, and while the       *)
(* stages run no key is removed and no value already written is replaced.  *)
(***************************************************************************)
C11_ResultsMonotone ==
    [][\A r \in ReqIds :
        /\ (req[r].pc = "schema" /\ req'[r].pc = "stage") => req'[r].results = NoMap
        /\ req[r].pc = "stage" =>
              \A k \in DOMAIN req[r].results :
                  /\ k \in DOMAIN req'[r].results
                  /\ req'[r].results[k] = req[r].results[k]]_vars

C11_Witness ==
    /\ req[1].pc = "present"
    /\ DOMAIN req[1].results =
          {"sql_query", "query_results", "chart_spec", "explanation_text"}

(***************************************************************************)
(* C12: two requests processed concurrently are isolated: under every      *)
(* interleaving the session state of a request holds exactly what the      *)
(* stages of that request wrote, every statement a request executes is the *)
(* one its own text-to-SQL stage produced, every engine is created by the  *)
(* request that uses it, and no shared engine object is touched.           *)
(***************************************************************************)
C12_RequestsIsolated ==
    /\ svc = NewService
    /\ dbtools = "none"
    /\ \A r \in ReqIds :
        /\ SessionState(r) = req[r].results
        /\ \A i \in 1..Len(req[r].calls) :
              req[r].calls[i].tool = "execute_sql_and_format" =>
                  /\ "sql_query" \in DOMAIN req[r].results
                  /\ req[r].calls[i].sql \in
                        {req[r].results["sql_query"], CleanSql(req[r].results["sql_query"])}
        /\ req[r].created >= Cardinality({i \in 1..Len(req[r].calls) : req[r].calls[i].executed})

C12_Witness ==
    /\ \A r \in ReqIds :
        /\ req[r].pc = "stage"
        /\ Stage(r) = "sql_executor_agent"
        /\ Len(req[r].calls) = 1
    /\ req[1].results["sql_query"] # req[2].results["sql_query"]

(***************************************************************************)
(* C13: when the query succeeds with an empty result set, the envelope of  *)
(* execute_sql_and_format and of DatabaseTools.execute_sql_query has       *)
(* success = true, data = [], row_count = 0 and error = null.              *)
(***************************************************************************)
C13_EmptyResultSucceeds ==
    (/\ call.fn \in {"execute_sql_and_format", "execute_sql_query"}
     /\ ~call.raised
     /\ call.frame = Some(EmptyFrame))
        => /\ CallEnvelope.success = TRUE
           /\ CallEnvelope.data = <<>>
           /\ CallEnvelope.row_count = 0
           /\ CallEnvelope.error = PyNone

C13_Witness ==
    /\ call.fn = "execute_sql_query"
    /\ ~call.raised
    /\ call.frame = Some(EmptyFrame)
    /\ call.ret.success

(***************************************************************************)
(* Equality as Python computes it between decoded values: a float NaN is   *)
(* equal to no value, itself included.                                     *)
(***************************************************************************)
PyEq(a, b) == a = b /\ a # "nan"

EnvelopeEq(d, e) ==
    /\ DOMAIN d = DOMAIN e
    /\ d.success = e.success
    /\ d.columns = e.columns
    /\ d.row_count = e.row_count
    /\ d.error = e.error
    /\ Len(d.data) = Len(e.data)
    /\ \A i \in 1..Len(d.data) :
          /\ DOMAIN d.data[i] = DOMAIN e.data[i]
          /\ \A c \in DOMAIN d.data[i] : PyEq(d.data[i][c], e.data[i][c])

(***************************************************************************)
(* C14: for every envelope produced by execute_sql_and_format, encoding it *)
(* as JSON and decoding it again yields a structure equal to the envelope: *)
(* same success, data, columns, row_count and error.                       *)
(***************************************************************************)
C14_JsonRoundTrip ==
    call.fn = "execute_sql_and_format" =>
        LET envelope == JsonLoads(call.ret).dict
            encoded == JsonDumps(envelope, 2)
            decoded == JsonLoads(encoded.text)
        IN  /\ ~encoded.raised
            /\ ~decoded.raised
            /\ decoded.type = "dict"
            /\ EnvelopeEq(decoded.dict, envelope)

(***************************************************************************)
(* What a schema text lists.                                               *)
(***************************************************************************)
TablesListed(text) == SelectSeq(text, LAMBDA l : l.kind = "Table")

MoreListed(text) == SelectSeq(text, LAMBDA l : l.kind = "... and more tables")

TableCount == Cardinality(DOMAIN sch.catalog)

TableKey(name) ==
    CHOOSE t \in DOMAIN sch.catalog : FullTableName([schema |-> t[1], table |-> t[2]]) = name

SchemaRead == sch.pc = "called" /\ sch.ok

C16_SchemaDeterministic ==
    SchemaRead =>
        /\ \A i, j \in 1..Len(sch.text) :
              (i < j /\ sch.text[i].kind = "Table" /\ sch.text[j].kind = "Table") =>
                  LET a == TableKey(sch.text[i].name)
                      b == TableKey(sch.text[j].name)
                  IN  KeyLess(<<Rank(a[1]), Rank(a[2]), 0>>, <<Rank(b[1]), Rank(b[2]), 0>>)
        /\ \A i \in 1..Len(sch.text) :
              sch.text[i].kind = "Table" =>
                  LET layout == sch.catalog[TableKey(sch.text[i].name)]
                  IN  \A k \in 1..Len(layout) :
                          /\ sch.text[i + 1 + k].kind = "Column"
                          /\ sch.text[i + 1 + k].name = layout[k]
        /\ (sch.calls = 2 /\ sch.prev # <<>> /\ sch.prev[1].kind = "Database Schema:")
              => sch.text = sch.prev

C16_Witness ==
    /\ SchemaRead
    /\ sch.calls = 2
    /\ sch.prev = sch.text
    /\ sch.max_tables = 3
    /\ TableCount = 3
    /\ \E t \in DOMAIN sch.catalog : Len(sch.catalog[t]) = 2

(***************************************************************************)
(* C17: a statement whose validation or execution failed is never          *)
(* submitted again within the request, and its failure is surfaced as a    *)
(* failed query in the response.                                           *)
(***************************************************************************)
CallFailed(c) ==
    /\ c.tool = "execute_sql_and_format"
    /\ ~JsonLoads(c.out).dict.success

C17_FailedSqlNotResubmitted ==
    \A r \in ReqIds :
        /\ \A i, j \in 1..Len(req[r].calls) :
              (i < j /\ CallFailed(req[r].calls[i])) =>
                  req[r].calls[j].sql # req[r].calls[i].sql
        /\ (/\ Done(r)
            /\ req[r].exc = ""
            /\ \E i \in 1..Len(req[r].calls) : CallFailed(req[r].calls[i]))
              => req[r].out.path = "query_error"

(***************************************************************************)
(* C18: process_request never raises: every exception of the pipeline is   *)
(* turned into a response, every finished request has its four outputs,    *)
(* and the response to an exception has table None, chart None, and the    *)
(* error message as query text and as summary.                             *)
(***************************************************************************)
C18_NeverRaises ==
    \A r \in ReqIds :
        /\ req[r].pc \in {"idle", "schema", "stage", "present", "raised", "done"}
        /\ req[r].pc = "raised" => ENABLED PresentException(r)
        /\ Done(r) =>
              /\ req[r].out.path \in {"empty_input", "exception", "query_error", "no_data", "full"}
              /\ {"sql", "table", "chart", "summary"} \subseteq DOMAIN req[r].out
        /\ (Done(r) /\ req[r].out.path = "exception") =>
              /\ req[r].out.table = None
              /\ req[r].out.chart = None
              /\ req[r].out.sql = req[r].out.summary
              /\ Len(req[r].out.sql) = 1
              /\ req[r].exc # "" => req[r].out.sql = <<"Error: " \o req[r].exc>>

C18_Witness ==
    /\ Done(1)
    /\ req[1].exc = ExcText
    /\ req[1].out.path = "exception"
    /\ "sql_query" \in DOMAIN req[1].results

(***************************************************************************)
(* The query_results a finished request parsed: whether json.loads raised, *)
(* and the dict the success check looked at.                               *)
(***************************************************************************)
Presented(r) == Done(r) /\ req[r].exc = "" /\ req[r].out.path # "empty_input"

Loaded(r) == JsonLoads(DictGet(req[r].results, "query_results", EmptyObjectText))

C20_NonEnvelopeIsQueryFailure ==
    \A r \in ReqIds :
        (/\ Presented(r)
         /\ \/ "query_results" \notin DOMAIN req[r].results
            \/ Loaded(r).raised
            \/ Loaded(r).type # "dict")
            => /\ req[r].out.path = "query_error"
               /\ OccursIn(CleanSql(DictGet(req[r].results, "sql_query", <<>>)), req[r].out.sql)

(***************************************************************************)
(* C21: for a question that is empty or only whitespace the request        *)
(* returns Error: Please enter a question, None, None, Error: No question  *)
(* provided, and it has created no session, read no schema, started no     *)
(* stage of the model, called no tool and created no engine.               *)
(***************************************************************************)
C21_EmptyInputShortCircuit ==
    \A r \in ReqIds :
        (Done(r) /\ \A i \in 1..Len(req[r].msg) : req[r].msg[i] \in BlankToks)
            => /\ req[r].out.sql = <<"Error: Please enter a question">>
               /\ req[r].out.table = None
               /\ req[r].out.chart = None
               /\ req[r].out.summary = <<"Error: No question provided">>
               /\ req[r].sessions = 0
               /\ req[r].state = NoMap
               /\ req[r].results = NoMap
               /\ req[r].log = <<>>
               /\ req[r].calls = <<>>
               /\ req[r].created = 0

C21_Witness ==
    /\ Done(1)
    /\ req[1].msg = <<" ">>
    /\ req[1].out.path = "empty_input"

(***************************************************************************)
(* C22: in evaluate(), an exception of the model call whose text is not a  *)
(* rate-limit error ends the attempts of the case at once: the handler     *)
(* counts no retry, adds no wait and starts no further attempt, and the    *)
(* step after it goes to the next case with nothing executed and the score *)
(* unchanged.                                                              *)
(***************************************************************************)
OtherError(e) == e.exc # "" /\ ~IsRateLimit(e.exc)

C22_OtherErrorEndsCase ==
    [][/\ (ev.pc \in {"session", "events"} /\ ~OtherError(ev) /\ OtherError(ev'))
            => /\ ev'.pc = "afterloop"
               /\ ev'.retry_count = ev.retry_count
               /\ ev'.waits = ev.waits
               /\ ev'.attempts = ev.attempts
               /\ ev'.executed = ev.executed
               /\ ev'.score = ev.score
       /\ (ev.pc = "afterloop" /\ OtherError(ev))
            => /\ ev'.pc = "case"
               /\ ev'.i = ev.i + 1
               /\ ev'.executed = ev.executed
               /\ ev'.score = ev.score
       /\ (ev.pc \in {"loop", "session", "events"}) => ~OtherError(ev)]_vars

C22_Witness ==
    /\ ev.pc = "case"
    /\ ev.i = 2
    /\ ev.n = 2
    /\ ev.exc = ExcText
    /\ ev.emitted # {}
    /\ ev.executed = <<>>
    /\ ev.score = 0

C24_SqlFromSameCase ==
    \A k \in 1..Len(ev.executed) : ev.executed[k].emitted

(***************************************************************************)
(* C25: in evaluate(), when every allowed attempt of a case ended in a     *)
(* rate-limit failure, the step after the loop executes no SQL and leaves  *)
(* the score as it is, also when a failed attempt had received a sql_query *)
(* value before it failed.                                                 *)
(***************************************************************************)
C25_ExhaustedCaseSkipped ==
    [][(ev.pc = "afterloop" /\ ev.exit = "exhausted")
          => /\ ev'.executed = ev.executed
             /\ ev'.score = ev.score]_vars

(***************************************************************************)
(* C26: after any sequence of connect, execute_sql and close calls of      *)
(* BIService, execute_sql hands a query to the executor, and load_schema   *)
(* finds an engine to read the catalog with, only if the most recent       *)
(* connect() returned success and close() has not been called since;       *)
(* otherwise execute_sql returns the failure envelope Not connected to     *)
(* database and load_schema, finding no engine, raises RuntimeError.       *)
(***************************************************************************)
C26_QueriesOnlyWhenConnected ==
    LET connected == svc.lastConnect = "ok" /\ ~svc.closedSince
    IN  /\ (call.fn = "BIService.execute_sql" /\ ~connected)
              => /\ ~call.raised
                 /\ ~call.executed
                 /\ call.ret = NotConnected
        /\ svc.engine = "live" => connected

=============================================================================
